---- MODULE Spec2Model ----
(***************************************************************************)
(* A model of price_finder.py: the eBay listing extractor, the per-region  *)
(* fetch and the concurrent multi-region search.                           *)
(*                                                                         *)
(* Text is a sequence of one-character strings, so that strip(), lower(),  *)
(* upper(), the "in" substring test, split('?') and len() are computed on  *)
(* characters as Python computes them.  An Optional value is a sequence of *)
(* length 0 (None) or 1.                                                   *)
(***************************************************************************)
EXTENDS Integers, Sequences, FiniteSets, TLC

VARIABLES
    mode,         \* entry point: "cli" main(); "api" EbayPriceScraper(...).search();
                  \* "export" ExcelExporter.export called on a list of products;
                  \* "region" the page handling of _search_region called on a page;
                  \* "extract" _extract_product_data called on a fragment
    argRegions,   \* the regions argument: None, or Some(list of region codes)
    mainPc,       \* position of main() / of the caller of search()
    regions,      \* self.regions
    max_products, \* the max_products argument, then self.max_products
    searchPc,     \* position of search()
    session,      \* the shared aiohttp.ClientSession: "none", "open", "closed"
    taskPc,       \* per region task of search(): position of _search_region
    requested,    \* per region task: the domain its GET was sent to ("" before)
    status,       \* per region task: status of the response in hand (0: none)
    logged,       \* per region task: the level of the warning or error it logged
    results,      \* what asyncio.gather collected from the region tasks
    all_products, \* the list search() returned
    card,         \* "extract": the fragment passed
    html,         \* "region": the page passed, as its div.s-item__wrapper fragments
    callRegion,   \* "extract", "region": the region code passed
    callPc,       \* "extract", "region": position of the call
    extracted,    \* "extract": what _extract_product_data did
    regionOut,    \* "region": what the page handling did
    extracting,   \* per region task: the fragments whose extraction it awaits
    exportPc,     \* position of ExcelExporter.export
    writes,       \* number of times export has tried to write the file
    viewer,       \* os.startfile in main(): "none", "opened", "failed"
    exitCode      \* the exit status of the process (-1 while it runs)

searchVars ==
    << argRegions, mainPc, regions, searchPc, session,
       taskPc, requested, status, logged, results, extracting, all_products >>

callVars ==
    << card, html, callRegion, callPc, extracted, regionOut >>

exportVars ==
    << exportPc, writes, viewer, exitCode >>

vars ==
    << mode, max_products, searchVars, callVars, exportVars >>

(***************************************************************************)
(* Bounds of the model.                                                    *)
(***************************************************************************)
MaxRegions ==
    2

MaxCards ==
    3

MaxSiteCards ==
    2

MaxCap ==
    3

\* The number of write attempts of export that are explored.
MaxWrites ==
    4

(***************************************************************************)
(* Optional values.                                                        *)
(***************************************************************************)
None ==
    << >>

Some(x) ==
    << x >>

IsSome(o) ==
    Len(o) = 1

Get(o) ==
    o[1]

(***************************************************************************)
(* Python's str operations, on sequences of characters.                    *)
(*                                                                         *)
(* A character is a one-character string.  The operations are Python's on  *)
(* the characters U+0000..U+00FF; the two characters above U+00FF that     *)
(* upper() makes of them are written by their code points.                 *)
(***************************************************************************)
\* the characters c with c.lower() # c, A-Z and the capital letters of Latin-1
UpperCase ==
    <<
       "A", "B", "C", "D", "E", "F", "G", "H", "I", "J", "K", "L", "M",
       "N", "O", "P", "Q", "R", "S", "T", "U", "V", "W", "X", "Y", "Z",
       "À", "Á", "Â", "Ã", "Ä", "Å", "Æ", "Ç", "È", "É", "Ê", "Ë", "Ì",
       "Í", "Î", "Ï", "Ð", "Ñ", "Ò", "Ó", "Ô", "Õ", "Ö", "Ø", "Ù", "Ú",
       "Û", "Ü", "Ý", "Þ" >>

\* their lower-case forms, position by position
LowerCase ==
    <<
       "a", "b", "c", "d", "e", "f", "g", "h", "i", "j", "k", "l", "m",
       "n", "o", "p", "q", "r", "s", "t", "u", "v", "w", "x", "y", "z",
       "à", "á", "â", "ã", "ä", "å", "æ", "ç", "è", "é", "ê", "ë", "ì",
       "í", "î", "ï", "ð", "ñ", "ò", "ó", "ô", "õ", "ö", "ø", "ù", "ú",
       "û", "ü", "ý", "þ" >>

\* the characters str.strip() removes: those with c.isspace(), U+0009-U+000D,
\* U+001C-U+001F, U+0020, U+0085 and U+00A0
Whitespace ==
    { " ", "\t", "\n", "\r", "\f",
      "", "", "", "", "", "", " " }

\* what c.lower() gives for one character
LowerChar(c) ==
    IF \E k \in 1..Len(UpperCase) : UpperCase[k] = c
    THEN LowerCase[CHOOSE k \in 1..Len(UpperCase) : UpperCase[k] = c]
    ELSE c

\* what c.upper() gives for one character: one character, but "SS" for the
\* sharp s; U+039C for the micro sign and U+0178 for y with diaeresis
UpperChar(c) ==
    IF \E k \in 1..Len(LowerCase) : LowerCase[k] = c
    THEN << UpperCase[CHOOSE k \in 1..Len(LowerCase) : LowerCase[k] = c] >>
    ELSE IF c = "ß" THEN << "S", "S" >>
    ELSE IF c = "µ" THEN << "U+039C" >>
    ELSE IF c = "ÿ" THEN << "U+0178" >>
    ELSE << c >>

\* str.lower()
Lower(s) ==
    [ k \in 1..Len(s) |-> LowerChar(s[k]) ]

\* str.upper()
RECURSIVE Upper(_)
Upper(s) ==
    IF s = << >> THEN << >> ELSE UpperChar(Head(s)) \o Upper(Tail(s))

\* str.strip(): leading and trailing whitespace removed
Strip(s) ==
    LET inner == { k \in 1..Len(s) : s[k] \notin Whitespace }
    IN  IF inner = {} THEN << >>
        ELSE LET first == CHOOSE k \in inner : \A j \in inner : k <= j
                 last  == CHOOSE k \in inner : \A j \in inner : j <= k
             IN  SubSeq(s, first, last)

\* sub in s
Contains(s, sub) ==
    \E k \in 0..(Len(s) - Len(sub)) : SubSeq(s, k + 1, k + Len(sub)) = sub

\* s.split(sep)[0] for a one-character sep
SplitFirst(s, sep) ==
    LET hits == { k \in 1..Len(s) : s[k] = sep }
    IN  IF hits = {} THEN s
        ELSE SubSeq(s, 1, (CHOOSE k \in hits : \A j \in hits : k <= j) - 1)

(***************************************************************************)
(* Texts of the fixtures.                                                  *)
(***************************************************************************)
TitleLens ==
    <<"V", "i", "n", "t", "a", "g", "e", " ", "C", "a", "m", "e", "r", "a", " ", "L", "e", "n", "s", " ", "5", "0", "m", "m">>

TitlePadded ==
    <<" ", "V", "i", "n", "t", "a", "g", "e", " ", "C", "a", "m", "e", "r", "a", " ", "L", "e", "n", "s", " ", "5", "0", "m", "m", "\n">>

TitleTripod ==
    <<"T", "r", "i", "p", "o", "d", " ", "S", "t", "a", "n", "d">>

TitleNewListing ==
    <<"N", "e", "w", " ", "L", "i", "s", "t", "i", "n", "g", "T", "r", "i", "p", "o", "d", " ", "S", "t", "a", "n", "d">>

TitleNewListingLower ==
    <<"n", "e", "w", " ", "l", "i", "s", "t", "i", "n", "g", " ", "t", "r", "i", "p", "o", "d">>

TitleAd ==
    <<"S", "h", "o", "p", " ", "o", "n", " ", "e", "B", "a", "y">>

TitleAdUpper ==
    <<"S", "H", "O", "P", " ", "O", "N", " ", "E", "B", "A", "Y">>

TitleAdInside ==
    <<"S", "h", "o", "p", " ", "o", "n", " ", "e", "B", "a", "y", " ", "D", "e", "a", "l", "s">>

TitleFive ==
    <<"L", "e", "n", "s", "5">>

TitleSix ==
    <<"L", "e", "n", "s", " ", "5">>

TitleShortPadded ==
    <<" ", " ", "a", "b", "c", " ", " ">>

\* five characters after a no-break space
TitleFiveNoBreak ==
    <<" ", "L", "e", "n", "s", "5">>

\* six characters between a form feed and a no-break space
TitleSixNoBreak ==
    <<"\f", "L", "e", "n", "s", "5", "6", " ">>

PricePlain ==
    <<"$", "4", "5", ".", "0", "0">>

PricePadded ==
    <<" ", "$", "4", "5", ".", "0", "0", " ">>

PriceNoBreak ==
    <<" ", "$", "4", "5", ".", "0", "0", " ">>

PriceOther ==
    <<"$", "1", "2", ".", "5", "0">>

PriceRange ==
    <<"$", "1", "0", ".", "0", "0", " ", "t", "o", " ", "$", "2", "0", ".", "0", "0">>

PriceRangeUpper ==
    <<"$", "1", "0", ".", "0", "0", " ", "T", "O", " ", "$", "2", "0", ".", "0", "0">>

PriceRangeMixed ==
    <<"$", "5", " ", "T", "o", " ", "$", "9">>

PriceWord ==
    <<"$", "9", " ", "t", "o", "t", "a", "l">>

PriceBlank ==
    <<" ", " ">>

HrefQuery ==
    <<"h", "t", "t", "p", "s", ":", "/", "/", "e", ".", "c", "o", "/", "i", "t", "m", "/", "1", "?", "h", "a", "s", "h", "=", "a">>

HrefPlain ==
    <<"h", "t", "t", "p", "s", ":", "/", "/", "e", ".", "c", "o", "/", "i", "t", "m", "/", "2">>

HrefOnlyQuery ==
    <<"?", "x", "=", "1">>

UrlOne ==
    <<"h", "t", "t", "p", "s", ":", "/", "/", "e", ".", "c", "o", "/", "i", "t", "m", "/", "1">>

EbayPrefix ==
    <<"e", "B", "a", "y", " ", "(">>

AdPlaceholder ==
    <<"s", "h", "o", "p", " ", "o", "n", " ", "e", "b", "a", "y">>

NewListingMarker ==
    <<"N", "e", "w", " ", "L", "i", "s", "t", "i", "n", "g">>

(***************************************************************************)
(* Region codes and the lookup table EBAY_SITES.                           *)
(***************************************************************************)
us ==
    << "u", "s" >>

uk ==
    << "u", "k" >>

xx ==
    << "x", "x" >>

\* a code whose upper-case form is longer than the code
accented ==
    << "é", "ß", "ÿ" >>

EBAY_SITES ==
    ( << "u", "s" >> :> "ebay.com"   @@ << "u", "k" >> :> "ebay.co.uk" @@
      << "d", "e" >> :> "ebay.de"    @@ << "f", "r" >> :> "ebay.fr"    @@
      << "i", "t" >> :> "ebay.it"    @@ << "e", "s" >> :> "ebay.es"    @@
      << "a", "u" >> :> "ebay.com.au" )

DomainWithoutFallback(region) ==
    IF region \in DOMAIN EBAY_SITES THEN EBAY_SITES[region] ELSE ""

\* self.EBAY_SITES.get(region, 'ebay.com')
DomainOf(region) ==
    IF region \in DOMAIN EBAY_SITES THEN EBAY_SITES[region] ELSE "ebay.com"

(***************************************************************************)
(* Product and the listing extractor.                                      *)
(*                                                                         *)
(* A card is one div.s-item__wrapper fragment:                             *)
(*   raises : reading the node raises (a malformed node)                   *)
(*   class  : the node's class attribute                                   *)
(*   title  : the text of 'div.s-item__title span', when selected          *)
(*   price  : the text of '.s-item__price', when selected                  *)
(*   link   : 'a.s-item__link', when selected: its href attribute, if any  *)
(***************************************************************************)
Product(name, price, url, site) ==
    [ name |-> name, price |-> price, url |-> url, site |-> site ]

SiteTagAsGiven(region) ==
    EbayPrefix \o region \o << ")" >>

\* f"eBay ({region.upper()})"
SiteTag(region) ==
    EbayPrefix \o Upper(region) \o << ")" >>

Returned(v) ==
    [ raised |-> FALSE, val |-> v ]

Raised ==
    [ raised |-> TRUE, val |-> None ]

\* line 78: 'srp-river-answer' in card.get('class', [])
IsSponsored(c) ==
    "srp-river-answer" \in c.class

\* line 83: not title_element or 'New Listing' in title_element.text
TitleRejected(title) ==
    ~IsSome(title) \/ Contains(Get(title), NewListingMarker)

\* A variant of IsAd: the title is compared with the placeholder, not searched for it.
IsAdWhenEqual(name) ==
    Lower(name) = AdPlaceholder

\* line 88: name == "Shop on eBay" or "shop on ebay" in name.lower()
IsAd(name) ==
    name = TitleAd \/ Contains(Lower(name), AdPlaceholder)

\* A variant of PriceRejected: "to" is looked for without lower().
PriceRejectedCaseSensitive(price) ==
    ~IsSome(price) \/ Contains(Get(price), << "t", "o" >>)

\* line 93: not price_element or 'to' in price_element.text.lower()
PriceRejected(price) ==
    ~IsSome(price) \/ Contains(Lower(Get(price)), << "t", "o" >>)

\* line 99: not link_element or not link_element.get('href')
LinkRejected(link) ==
    ~IsSome(link) \/ ~IsSome(Get(link)) \/ Get(Get(link)) = << >>

\* line 101: link_element['href'].split('?')[0]
CleanUrl(href) ==
    SplitFirst(href, "?")

\* A variant of AllValid: len(name) >= 5.
AllValidFromFive(name, price, url) ==
    name # << >> /\ price # << >> /\ url # << >> /\ Len(name) >= 5

\* line 104: name and price and url and len(name) > 5
AllValid(name, price, url) ==
    name # << >> /\ price # << >> /\ url # << >> /\ Len(name) > 5

\* The body of the try block of _extract_product_data.
ExtractTry(c, region) ==
    IF c.raises THEN Raised
    ELSE IF IsSponsored(c) THEN Returned(None)
    ELSE IF TitleRejected(c.title) THEN Returned(None)
    ELSE LET name == Strip(Get(c.title)) IN
         IF IsAd(name) THEN Returned(None)
    ELSE IF PriceRejected(c.price) THEN Returned(None)
    ELSE LET price == Strip(Get(c.price)) IN
         IF LinkRejected(c.link) THEN Returned(None)
    ELSE LET url == CleanUrl(Get(Get(c.link))) IN
         IF AllValid(name, price, url)
         THEN Returned(Some(Product(name, price, url, SiteTag(region))))
         ELSE Returned(None)

\* A variant of _extract_product_data: no except clause.
ExtractWithoutExcept(c, region) ==
    ExtractTry(c, region)

\* the try block, and "except Exception: return None".
_extract_product_data(c, region) ==
    LET r == ExtractTry(c, region)
    IN  IF r.raised THEN Returned(None) ELSE r

(***************************************************************************)
(* Fixtures: the fragments a page can hold.                                *)
(***************************************************************************)
Titles ==
    { None, Some(<< >>), Some(TitleLens), Some(TitlePadded), Some(TitleTripod),
      Some(TitleNewListing), Some(TitleNewListingLower), Some(TitleAd),
      Some(TitleAdUpper), Some(TitleAdInside), Some(TitleFive), Some(TitleSix),
      Some(TitleShortPadded), Some(TitleFiveNoBreak), Some(TitleSixNoBreak) }

Prices ==
    { None, Some(<< >>), Some(PricePlain), Some(PricePadded), Some(PriceRange),
      Some(PriceRangeUpper), Some(PriceRangeMixed), Some(PriceWord),
      Some(PriceBlank), Some(PriceNoBreak) }

Links ==
    { None, Some(None), Some(Some(<< >>)), Some(Some(HrefQuery)),
      Some(Some(HrefPlain)), Some(Some(HrefOnlyQuery)) }

Classes ==
    { {"s-item__wrapper"}, {"s-item__wrapper", "srp-river-answer"} }

Cards ==
    [ raises : BOOLEAN, class : Classes, title : Titles, price : Prices,
      link : Links ]

RegionCodes ==
    { us, uk, xx }

\* the codes _extract_product_data is called with directly
CallRegions ==
    RegionCodes \cup { accented }

MkCard(cls, title, price, href) ==
    [ raises |-> FALSE, class |-> cls, title |-> Some(title),
      price |-> Some(price), link |-> Some(Some(href)) ]

CardLens ==
    MkCard({"s-item__wrapper"}, TitleLens, PricePlain, HrefQuery)

CardTripod ==
    MkCard({"s-item__wrapper"}, TitleTripod, PriceOther, HrefPlain)

CardSponsored ==
    MkCard({"s-item__wrapper", "srp-river-answer"}, TitleLens, PricePlain, HrefQuery)

CardRange ==
    MkCard({"s-item__wrapper"}, TitleLens, PriceRange, HrefQuery)

CardMalformed ==
    [ CardLens EXCEPT !.raises = TRUE ]

\* The listing a region site answers a search with.
SiteListing ==
    << CardLens, CardTripod, CardRange >>

\* The fragments of a page passed to the page handling directly.
PageCards ==
    { CardLens, CardTripod, CardSponsored, CardRange, CardMalformed }

SeqsUpTo(S, n) ==
    UNION { [ 1..k -> S ] : k \in 0..n }

\* The pages a region site answers with: the first fragments of its listing,
\* none included.
SitePages ==
    { SubSeq(SiteListing, 1, k) :
          k \in 0..(IF MaxSiteCards <= Len(SiteListing) THEN MaxSiteCards
                    ELSE Len(SiteListing)) }

Pages ==
    SeqsUpTo(PageCards, MaxCards)

\* Values of max_products: the constructor and argparse accept any integer.
Caps ==
    (0 - 1)..MaxCap

\* Values of max_products in a search: a negative one, zero, a small one and
\* the default of main() (line 250).
SearchCaps ==
    { 0 - 1, 0, 2, 5 }

\* Statuses a region site answers with (redirects with a Location are
\* followed inside session.get and never reach _search_region).
Statuses ==
    { 200, 300, 404, 500 }

(***************************************************************************)
(* _search_region: what it does with a page (lines 130-152).               *)
(***************************************************************************)
Min(a, b) ==
    IF a <= b THEN a ELSE b

Max(a, b) ==
    IF a >= b THEN a ELSE b

\* A variant of SliceTo: the list is not truncated.
SliceNothing(s, n) ==
    s

\* s[:n], Python's slice: a negative n counts from the end
SliceTo(s, n) ==
    IF n >= 0 THEN SubSeq(s, 1, Min(n, Len(s)))
    ELSE SubSeq(s, 1, Max(Len(s) + n, 0))

\* line 147: [p for p in products if p is not None]
RECURSIVE FilterValid(_)
FilterValid(products) ==
    IF products = << >> THEN << >>
    ELSE IF IsSome(Head(products).val)
         THEN << Get(Head(products).val) >> \o FilterValid(Tail(products))
         ELSE FilterValid(Tail(products))

\* An outcome of (a part of) _search_region: it raised `exc`, or it returned
\* `val`; `calls` extraction calls were made and `log` was logged.
Outcome(raised, exc, val, n, log) ==
    [ raised |-> raised, exc |-> exc, val |-> val, calls |-> n, log |-> log ]

\* _extract_product_data on the fragments of the pages, tabulated
Extraction ==
    [ c \in PageCards, r \in RegionCodes |-> _extract_product_data(c, r) ]

\* lines 140-152: one _extract_product_data call per fragment of the
\* truncated list, gathered in the order of the list and filtered; an
\* exception of an extraction is raised at the await
Gathered(cards, region) ==
    LET products == [ k \in 1..Len(cards) |-> Extraction[cards[k], region] ] IN
    IF \E k \in 1..Len(products) : products[k].raised
    THEN Outcome(TRUE, "extraction", << >>, Len(products), "")
    ELSE Outcome(FALSE, "", FilterValid(products), Len(products), "")

\* line 144: await asyncio.gather(*tasks) gives control back to the event
\* loop when there is an extraction to wait for; gather of nothing is done
\* at once
Suspends(page, cap) ==
    SliceTo(page, cap) # << >>

\* lines 130-152: select the fragments, truncate, extract, filter
HandlePage(page, cap, region) ==
    LET product_cards == page IN
    IF product_cards = << >>
    THEN Outcome(FALSE, "", << >>, 0, "warning")
    ELSE Gathered(SliceTo(product_cards, cap), region)

\* A variant of Handled: no except clause.
Unhandled(o) ==
    o

\* lines 154-156: except Exception: logger.error(...); return []
Handled(o) ==
    IF o.raised
    THEN Outcome(FALSE, "", << >>, o.calls, "error")
    ELSE o

\* line 127: response.raise_for_status(), which raises for a status of 400 or more
RaisesForStatus(s) ==
    s >= 400

(***************************************************************************)
(* main() up to the search, and EbayPriceScraper.__init__.                 *)
(***************************************************************************)
Tasks ==
    1..Len(regions)

NoTasks ==
    << >>

\* A variant of ArgsAccepted: no choices.
ArgsAcceptedAnyCode(arg) ==
    arg = None \/ Get(arg) # << >>

\* lines 252-253: nargs='+' with choices=EBAY_SITES.keys(), default ['us']
ArgsAccepted(arg) ==
    \/ arg = None
    \/ /\ Get(arg) # << >>
       /\ \A k \in 1..Len(Get(arg)) : Get(arg)[k] \in DOMAIN EBAY_SITES

\* line 61: self.regions = regions or ['us']
RegionsOrDefault(arg) ==
    IF arg = None \/ Get(arg) = << >> THEN << us >> ELSE Get(arg)

\* line 255: parser.parse_args(), which exits with a usage error
ParseArgs ==
    /\ mode = "cli"
    /\ mainPc = "start"
    /\ mainPc' = IF ArgsAccepted(argRegions) THEN "parsed" ELSE "usage_error"
    /\ exitCode' = IF ArgsAccepted(argRegions) THEN exitCode ELSE 2
    /\ UNCHANGED << mode, max_products, argRegions, regions, searchPc, session,
                    taskPc, requested, status, logged, results, extracting,
                    all_products, callVars, exportPc, writes, viewer >>

\* line 259 and __init__
Construct ==
    /\ \/ mode = "cli" /\ mainPc = "parsed"
       \/ mode = "api" /\ mainPc = "start"
    /\ regions' = RegionsOrDefault(argRegions)
    /\ mainPc' = "constructed"
    /\ UNCHANGED << mode, max_products, argRegions, searchPc, session,
                    taskPc, requested, status, logged, results, extracting,
                    all_products, callVars, exportVars >>

(***************************************************************************)
(* search(): the session, one task per region, gather, flatten.            *)
(***************************************************************************)
\* lines 162-166: the session is opened and one coroutine per entry of
\* self.regions is created
SearchBegin ==
    /\ mainPc = "constructed"
    /\ mainPc' = "searching"
    /\ searchPc' = "gathering"
    /\ session' = "open"
    /\ taskPc' = [ i \in Tasks |-> "pending" ]
    /\ requested' = [ i \in Tasks |-> "" ]
    /\ status' = [ i \in Tasks |-> 0 ]
    /\ logged' = [ i \in Tasks |-> "" ]
    /\ results' = [ i \in Tasks |-> << >> ]
    /\ extracting' = [ i \in Tasks |-> << >> ]
    /\ UNCHANGED << mode, max_products, argRegions, regions, all_products,
                    callVars, exportVars >>

\* A variant of TaskReady: each coroutine is awaited before the next is started.
TaskReadyInTurn(i) ==
    /\ taskPc[i] = "pending"
    /\ \A j \in 1..(i - 1) : taskPc[j] \in { "done", "raised" }

\* line 167: asyncio.gather runs every coroutine as a task of its own
TaskReady(i) ==
    taskPc[i] = "pending"

\* A variant of GatherStore: results are collected as the tasks complete.
StoreAsCompleted(res, i, val) ==
    [ res EXCEPT ![Cardinality({ j \in DOMAIN taskPc : taskPc[j] \in { "done", "raised" } }) + 1] = val ]

\* line 167: gather puts the result of the i-th awaitable at position i
GatherStore(res, i, val) ==
    [ res EXCEPT ![i] = val ]

\* lines 120-126: the domain is looked up and the GET is sent
Start(i) ==
    /\ searchPc = "gathering"
    /\ TaskReady(i)
    /\ taskPc' = [ taskPc EXCEPT ![i] = "requested" ]
    /\ requested' = [ requested EXCEPT ![i] = DomainOf(regions[i]) ]
    /\ UNCHANGED << mode, max_products, argRegions, mainPc, regions, searchPc,
                    session, status, logged, results, extracting, all_products,
                    callVars, exportVars >>

\* The task of region i ends with outcome o.
Finish(i, o) ==
    /\ taskPc' = [ taskPc EXCEPT ![i] = IF o.raised THEN "raised" ELSE "done" ]
    /\ status' = [ status EXCEPT ![i] = 0 ]
    /\ logged' = [ logged EXCEPT ![i] = o.log ]
    /\ results' = GatherStore(results, i, o.val)
    /\ extracting' = [ extracting EXCEPT ![i] = << >> ]
    /\ UNCHANGED << mode, max_products, argRegions, mainPc, regions, searchPc,
                    session, requested, all_products, callVars, exportVars >>

\* line 126: session.get raises (connection failure, TLS failure)
RequestFails(i, exc) ==
    /\ searchPc = "gathering"
    /\ taskPc[i] = "requested"
    /\ Finish(i, Handled(Outcome(TRUE, exc, << >>, 0, "")))

NeverExpires(pc) ==
    FALSE

\* lines 126-128, 162: the session is created with no timeout argument and
\* the request passes none, so the client's default total timeout runs from
\* the moment the request is sent until the body has been read
TimerRunning(pc) ==
    pc \in { "requested", "responded" }

\* lines 126-128: the total timeout expires while the response or its body is
\* awaited: asyncio.TimeoutError is raised at the await
TimesOut(i) ==
    /\ searchPc = "gathering"
    /\ TimerRunning(taskPc[i])
    /\ Finish(i, Handled(Outcome(TRUE, "timeout", << >>, 0, "")))

\* lines 126-127: the response arrives and its status is checked
Respond(i, s) ==
    /\ searchPc = "gathering"
    /\ taskPc[i] = "requested"
    /\ IF RaisesForStatus(s)
       THEN Finish(i, Handled(Outcome(TRUE, "status", << >>, 0, "")))
       ELSE /\ taskPc' = [ taskPc EXCEPT ![i] = "responded" ]
            /\ status' = [ status EXCEPT ![i] = s ]
            /\ UNCHANGED << mode, max_products, argRegions, mainPc, regions,
                            searchPc, session, requested, logged,
                            results, extracting, all_products, callVars, exportVars >>

\* line 128: reading the body raises
BodyFails(i) ==
    /\ searchPc = "gathering"
    /\ taskPc[i] = "responded"
    /\ Finish(i, Handled(Outcome(TRUE, "payload", << >>, 0, "")))

\* lines 128-144: the body is read and the fragments are selected and
\* truncated; the task returns at once when there is nothing to extract, else
\* it waits at line 144 for the extractions (the connection is released once
\* the body is read, which stops the timer of the request)
ReadBody(i, page) ==
    /\ searchPc = "gathering"
    /\ taskPc[i] = "responded"
    /\ IF Suspends(page, max_products)
       THEN /\ taskPc' = [ taskPc EXCEPT ![i] = "extracting" ]
            /\ extracting' = [ extracting EXCEPT ![i] = SliceTo(page, max_products) ]
            /\ UNCHANGED << mode, max_products, argRegions, mainPc, regions,
                            searchPc, session, requested, status, logged,
                            results, all_products, callVars, exportVars >>
       ELSE Finish(i, Handled(HandlePage(page, max_products, regions[i])))

\* lines 144-152: the extractions are done, their results are filtered and
\* the task returns
ExtractReturn(i) ==
    /\ searchPc = "gathering"
    /\ taskPc[i] = "extracting"
    /\ Finish(i, Handled(Gathered(extracting[i], regions[i])))

AnyFinished(pcs) ==
    \E i \in DOMAIN pcs : pcs[i] \in { "done", "raised" }

\* line 167: await asyncio.gather(*tasks) resumes when every task has finished
AllFinished(pcs) ==
    \A i \in DOMAIN pcs : pcs[i] \in { "done", "raised" }

\* line 170: [p for products in results for p in products]
RECURSIVE Flatten(_)
Flatten(lists) ==
    IF lists = << >> THEN << >> ELSE Head(lists) \o Flatten(Tail(lists))

\* lines 167-172: gather returns once every task has finished, or raises what
\* a task raised; the session is closed on the way out
SearchEnd ==
    /\ searchPc = "gathering"
    /\ AllFinished(taskPc)
    /\ session' = "closed"
    /\ IF \E i \in Tasks : taskPc[i] = "raised"
       THEN /\ searchPc' = "raised"
            /\ mainPc' = "failed"
            /\ exitCode' = IF mode = "cli" THEN 1 ELSE exitCode
            /\ UNCHANGED all_products
       ELSE /\ searchPc' = "done"
            /\ mainPc' = "returned"
            /\ all_products' = Flatten(results)
            /\ UNCHANGED exitCode
    /\ UNCHANGED << mode, max_products, argRegions, regions, taskPc, requested,
                    status, logged, results, extracting, callVars, exportPc, writes, viewer >>

(***************************************************************************)
(* main() after the search, and ExcelExporter.export.                      *)
(***************************************************************************)
ExportAlways(products) ==
    TRUE

\* line 265: if products
HasProducts(products) ==
    products # << >>

\* line 183: if not products: raise ValueError
NoProducts(products) ==
    products = << >>

\* What writing the file can do: it succeeds, the file is locked
\* (PermissionError), or it fails otherwise.
WriteOutcomes ==
    { "ok", "permission", "error" }

\* lines 270-274: not on Windows, os.startfile succeeds, os.startfile raises
Viewers ==
    { "none", "opened", "failed" }

\* lines 263-267: search() has returned products, its frame is gone, and
\* exporter.export(products, ...) is called
MainExport ==
    /\ mode = "cli"
    /\ mainPc = "returned"
    /\ HasProducts(all_products)
    /\ mainPc' = "exporting"
    /\ exportPc' = "called"
    /\ searchPc' = "over"
    /\ taskPc' = NoTasks
    /\ requested' = NoTasks
    /\ status' = NoTasks
    /\ logged' = NoTasks
    /\ results' = NoTasks
    /\ extracting' = NoTasks
    /\ UNCHANGED << mode, max_products, argRegions, regions, session,
                    all_products, callVars, writes, viewer, exitCode >>

\* lines 263-265, 275-277: search() has returned no product: return 1
MainNoProducts ==
    /\ mode = "cli"
    /\ mainPc = "returned"
    /\ ~HasProducts(all_products)
    /\ mainPc' = "exited"
    /\ exitCode' = 1
    /\ searchPc' = "over"
    /\ taskPc' = NoTasks
    /\ requested' = NoTasks
    /\ status' = NoTasks
    /\ logged' = NoTasks
    /\ results' = NoTasks
    /\ extracting' = NoTasks
    /\ UNCHANGED << mode, max_products, argRegions, regions, session,
                    all_products, callVars, exportPc, writes, viewer >>

\* lines 181-200: export refuses an empty list, else prepares the data and
\* the file name
ExportBegin ==
    /\ exportPc = "called"
    /\ exportPc' = IF NoProducts(all_products) THEN "raised" ELSE "writing"
    /\ UNCHANGED << mode, max_products, searchVars, callVars, writes, viewer,
                    exitCode >>

\* lines 229-234: except PermissionError: export calls itself with the name
\* changed to <base>_new<ext>
AfterPermissionError ==
    "writing"

\* lines 202-240: one attempt to write the file.  The name given to the
\* attempt after `writes` failed ones carries `writes` "_new" suffixes.
\* Nothing in export limits the attempts: MaxWrites only bounds how many
\* of them are explored.
ExportWrite(outcome) ==
    /\ exportPc = "writing"
    /\ writes < MaxWrites
    /\ writes' = writes + 1
    /\ exportPc' = IF outcome = "ok" THEN "returned"
                   ELSE IF outcome = "permission" THEN AfterPermissionError
                   ELSE "raised"
    /\ UNCHANGED << mode, max_products, searchVars, callVars, viewer, exitCode >>

ExitOneWhenViewerFails(v) ==
    IF v = "failed" THEN 1 ELSE 0

\* lines 270-274, 286: the status after the export, whatever os.startfile did
ExitAfterExport(v) ==
    0

\* lines 267-274, 286: export returned the file name; on Windows the file is
\* opened; return 0
MainExported(v) ==
    /\ mode = "cli"
    /\ mainPc = "exporting"
    /\ exportPc = "returned"
    /\ viewer' = v
    /\ exitCode' = ExitAfterExport(v)
    /\ mainPc' = "exited"
    /\ UNCHANGED << mode, max_products, argRegions, regions, searchPc, session,
                    taskPc, requested, status, logged, results, extracting, all_products,
                    callVars, exportPc, writes >>

\* lines 282-284: export raised: return 1
MainExportFailed ==
    /\ mode = "cli"
    /\ mainPc = "exporting"
    /\ exportPc = "raised"
    /\ exitCode' = 1
    /\ mainPc' = "exited"
    /\ UNCHANGED << mode, max_products, argRegions, regions, searchPc, session,
                    taskPc, requested, status, logged, results, extracting, all_products,
                    callVars, exportPc, writes, viewer >>

(***************************************************************************)
(* Direct calls.                                                           *)
(***************************************************************************)
\* _extract_product_data(card, region)
ExtractCall ==
    /\ mode = "extract"
    /\ callPc = "called"
    /\ callPc' = "done"
    /\ extracted' = _extract_product_data(card, callRegion)
    /\ UNCHANGED << mode, max_products, searchVars, card, html, callRegion,
                    regionOut, exportVars >>

\* lines 130-144: the page handling of _search_region on a given page, up to
\* its return when there is nothing to extract, else up to the await
PageCall ==
    /\ mode = "region"
    /\ callPc = "called"
    /\ IF Suspends(html, max_products)
       THEN callPc' = "extracting" /\ UNCHANGED regionOut
       ELSE /\ callPc' = "done"
            /\ regionOut' = Handled(HandlePage(html, max_products, callRegion))
    /\ UNCHANGED << mode, max_products, searchVars, card, html, callRegion,
                    extracted, exportVars >>

\* lines 144-156: the extractions are done and the call returns
PageReturn ==
    /\ mode = "region"
    /\ callPc = "extracting"
    /\ callPc' = "done"
    /\ regionOut' = Handled(Gathered(SliceTo(html, max_products), callRegion))
    /\ UNCHANGED << mode, max_products, searchVars, card, html, callRegion,
                    extracted, exportVars >>

(***************************************************************************)
(* Initial states and the specification.                                   *)
(***************************************************************************)
RegionLists ==
    SeqsUpTo(RegionCodes, MaxRegions)

IdleSearch ==
    /\ argRegions = None
    /\ mainPc = "idle"
    /\ regions = << >>
    /\ searchPc = "idle"
    /\ session = "none"
    /\ taskPc = NoTasks
    /\ requested = NoTasks
    /\ status = NoTasks
    /\ logged = NoTasks
    /\ results = NoTasks
    /\ extracting = NoTasks
    /\ all_products = << >>

IdleExport ==
    /\ exportPc = "idle"
    /\ writes = 0
    /\ viewer = "none"
    /\ exitCode = 0 - 1

IdleCall ==
    /\ card = CardLens
    /\ html = << >>
    /\ callRegion = us
    /\ callPc = "idle"
    /\ extracted = Returned(None)
    /\ regionOut = Outcome(FALSE, "", << >>, 0, "")

InitSearch ==
    /\ mode \in { "cli", "api" }
    /\ argRegions \in { None } \cup { Some(l) : l \in RegionLists }
    /\ max_products \in SearchCaps
    /\ mainPc = "start"
    /\ regions = << >>
    /\ searchPc = "idle"
    /\ session = "none"
    /\ taskPc = NoTasks
    /\ requested = NoTasks
    /\ status = NoTasks
    /\ logged = NoTasks
    /\ results = NoTasks
    /\ extracting = NoTasks
    /\ all_products = << >>
    /\ IdleCall
    /\ IdleExport

InitPage ==
    /\ mode = "region"
    /\ max_products \in Caps
    /\ html \in Pages
    /\ callRegion \in RegionCodes
    /\ callPc = "called"
    /\ card = CardLens
    /\ extracted = Returned(None)
    /\ regionOut = Outcome(FALSE, "", << >>, 0, "")
    /\ IdleSearch
    /\ IdleExport

InitExtract ==
    /\ mode = "extract"
    /\ max_products = 5
    /\ card \in Cards
    /\ callRegion \in CallRegions
    /\ callPc = "called"
    /\ html = << >>
    /\ extracted = Returned(None)
    /\ regionOut = Outcome(FALSE, "", << >>, 0, "")
    /\ IdleSearch
    /\ IdleExport

\* export(products, query) called on a list of products, an empty one included
ExportInputs ==
    { << >>,
      << Get(_extract_product_data(CardLens, us).val) >>,
      << Get(_extract_product_data(CardLens, us).val),
         Get(_extract_product_data(CardTripod, uk).val) >> }

InitExport ==
    /\ mode = "export"
    /\ max_products = 5
    /\ argRegions = None
    /\ mainPc = "idle"
    /\ regions = << >>
    /\ searchPc = "idle"
    /\ session = "none"
    /\ taskPc = NoTasks
    /\ requested = NoTasks
    /\ status = NoTasks
    /\ logged = NoTasks
    /\ results = NoTasks
    /\ extracting = NoTasks
    /\ all_products \in ExportInputs
    /\ IdleCall
    /\ exportPc = "called"
    /\ writes = 0
    /\ viewer = "none"
    /\ exitCode = 0 - 1

Init ==
    InitSearch \/ InitPage \/ InitExtract \/ InitExport

Next ==
    \/ ParseArgs
    \/ Construct
    \/ SearchBegin
    \/ \E i \in Tasks : Start(i)
    \/ \E i \in Tasks : \E exc \in { "connection", "tls" } : RequestFails(i, exc)
    \/ \E i \in Tasks : TimesOut(i)
    \/ \E i \in Tasks : \E s \in Statuses : Respond(i, s)
    \/ \E i \in Tasks : BodyFails(i)
    \/ \E i \in Tasks : \E page \in SitePages : ReadBody(i, page)
    \/ \E i \in Tasks : ExtractReturn(i)
    \/ SearchEnd
    \/ MainExport
    \/ MainNoProducts
    \/ ExportBegin
    \/ \E outcome \in WriteOutcomes : ExportWrite(outcome)
    \/ \E v \in Viewers : MainExported(v)
    \/ MainExportFailed
    \/ ExtractCall
    \/ PageCall
    \/ PageReturn

Spec ==
    Init /\ [][Next]_vars

\* A step of the event loop that needs no answer from a server: a task
\* gather has created is run, a timer that is due fires, the extractions a
\* task waits for are run, or gather returns.
LoopStep ==
    \/ \E i \in Tasks : Start(i)
    \/ \E i \in Tasks : TimesOut(i)
    \/ \E i \in Tasks : ExtractReturn(i)
    \/ SearchEnd

\* The event loop does not stall while it has such a step to take.  Nothing
\* is assumed about the servers: a response may never arrive.
Fairness ==
    WF_vars(LoopStep)

SpecLive ==
    Init /\ [][Next]_vars /\ Fairness

(***************************************************************************)
(* Properties.                                                             *)
(***************************************************************************)
Searching ==
    mode \in { "cli", "api" } /\ searchPc \in { "gathering", "done", "raised" }

Failed(i) ==
    logged[i] = "error"

RECURSIVE LenBefore(_)
\* the number of products the regions before region i returned
LenBefore(i) ==
    IF i = 1 THEN 0 ELSE LenBefore(i - 1) + Len(results[i - 1])

\* all_products from position p on can be split into runs, one per region
\* task from task k on, taken in the order of self.regions, the products of a
\* run carrying the site tag of its region
RECURSIVE InRegionOrder(_, _)
InRegionOrder(p, k) ==
    IF p > Len(all_products) THEN TRUE
    ELSE LET later == { j \in k..Len(regions) :
                          SiteTag(regions[j]) = all_products[p].site }
         IN  /\ later # {}
             /\ InRegionOrder(p + 1, CHOOSE j \in later : \A m \in later : j <= m)

IsPrefix(s, t) ==
    Len(s) <= Len(t) /\ SubSeq(t, 1, Len(s)) = s

\* the products of the fragments of `page` that are accepted, in document order
RECURSIVE AcceptedInOrder(_, _)
AcceptedInOrder(page, region) ==
    IF page = << >> THEN << >>
    ELSE LET r == ExtractTry(Head(page), region)
         IN  (IF ~r.raised /\ IsSome(r.val) THEN << Get(r.val) >> ELSE << >>)
             \o AcceptedInOrder(Tail(page), region)

\* "to" occurs in the text, in any letter case
HasTo(text) ==
    \E k \in 1..(Len(text) - 1) :
        text[k] \in { "t", "T" } /\ text[k + 1] \in { "o", "O" }

SiteUS ==
    << "e", "B", "a", "y", " ", "(", "U", "S", ")" >>

ExtractDone ==
    mode = "extract" /\ callPc = "done"

PageDone ==
    mode = "region" /\ callPc = "done"

\* C1: a search raises nothing; a region whose fetch failed contributes an
\* empty list, and the list returned is the lists of the regions, failed ones
\* left out, one after the other in the order of self.regions.
C1_FailedRegionContributesNothing ==
    Searching =>
        /\ searchPc # "raised"
        /\ \A i \in Tasks : taskPc[i] # "raised"
        /\ \A i \in Tasks : Failed(i) => results[i] = << >>
        /\ searchPc = "done" =>
              /\ Len(all_products) = LenBefore(Len(regions) + 1)
              /\ \A i \in Tasks : ~Failed(i) =>
                    \A k \in 1..Len(results[i]) :
                        all_products[LenBefore(i) + k] = results[i][k]

\* C1: a search of two regions has returned; the first region failed and the
\* second region's products are the whole result.
C1_Witness ==
    /\ searchPc = "done"
    /\ Len(regions) = 2
    /\ Failed(1)
    /\ results[2] # << >>
    /\ all_products = results[2]

\* C2 (as claimed): a region task that ends after a failed request, or with a
\* response whose status is not 2xx, returns an empty list, and no region task
\* lets an exception escape.
C2_NonSuccessStatusReturnsEmpty ==
    [][ searchPc = "gathering" =>
          \A i \in Tasks :
              /\ taskPc'[i] # "raised"
              /\ (taskPc[i] = "requested" /\ taskPc'[i] = "done")
                     => results'[i] = << >>
              /\ (taskPc[i] \in { "responded", "extracting" }
                      /\ status[i] \notin 200..299 /\ taskPc'[i] = "done")
                     => results'[i] = << >> ]_vars

\* C3: the list search returns holds the products region by region in the
\* order of self.regions, whichever task completed first, and the list of one
\* region holds its accepted fragments in document order.
C3_ResultInRequestOrder ==
    /\ (Searching /\ searchPc = "done") => InRegionOrder(1, 1)
    /\ PageDone => IsPrefix(regionOut.val, AcceptedInOrder(html, callRegion))

\* C3: the second of two different regions has completed with products while
\* the first is still waiting for its body.
C3_Witness ==
    /\ searchPc = "gathering"
    /\ Len(regions) = 2
    /\ regions[1] # regions[2]
    /\ taskPc[1] = "responded"
    /\ taskPc[2] = "done"
    /\ results[2] # << >>

\* C4: while search is gathering, a region task that has not sent its request
\* can send it, whatever the other region tasks are doing.
C4_RequestsIndependent ==
    (Searching /\ searchPc = "gathering") =>
        \A i \in Tasks : taskPc[i] = "pending" => ENABLED Start(i)

\* C4: the requests of two or more regions are all outstanding at once.
C4_Witness ==
    /\ searchPc = "gathering"
    /\ Len(regions) >= 2
    /\ \A i \in Tasks : taskPc[i] = "requested"

\* C5 (as claimed): at most one request is issued for a region code, however
\* often the code occurs in the configured list.
C5_DuplicatesCollapse ==
    Searching =>
        \A i, j \in Tasks :
            (i # j /\ regions[i] = regions[j])
                => ~(requested[i] # "" /\ requested[j] # "")

\* C6 (as claimed): no request is issued for a region code outside EBAY_SITES.
C6_NoRequestForUnknownRegion ==
    Searching =>
        \A i \in Tasks : requested[i] # "" => regions[i] \in DOMAIN EBAY_SITES

UnknownCodeGiven ==
    /\ IsSome(argRegions)
    /\ \E k \in 1..Len(Get(argRegions)) : Get(argRegions)[k] \notin DOMAIN EBAY_SITES

\* C6 (amended): started through main(), a region code outside EBAY_SITES is
\* rejected by the argument parser before the scraper is built and before any
\* request is made; main() never issues a request for such a code.
C6_MainRejectsUnknownRegion ==
    mode = "cli" =>
        /\ UnknownCodeGiven =>
              /\ mainPc \in { "start", "usage_error" }
              /\ session = "none"
              /\ regions = << >>
              /\ taskPc = NoTasks
        /\ \A i \in DOMAIN requested :
              requested[i] # "" => regions[i] \in DOMAIN EBAY_SITES

\* C6: main() has stopped with a usage error on a list holding an unknown code.
C6_Witness ==
    /\ mode = "cli"
    /\ mainPc = "usage_error"
    /\ UnknownCodeGiven

\* C7: a fragment whose price text holds "to" in any letter case yields no
\* product, whatever its title and link.
C7_PriceRangeRejected ==
    (ExtractDone /\ IsSome(card.price) /\ HasTo(Get(card.price)))
        => extracted = Returned(None)

\* C7: an otherwise valid fragment with the price "$10.00 TO $20.00" was rejected.
C7_Witness ==
    /\ ExtractDone
    /\ card = [ CardLens EXCEPT !.price = Some(PriceRangeUpper) ]
    /\ extracted = Returned(None)

\* C8: a fragment whose trimmed title has 5 characters or fewer, or is the ad
\* placeholder in any letter case, yields no product.
C8_ShortOrAdTitleRejected ==
    (ExtractDone /\ IsSome(card.title)
        /\ (Len(Strip(Get(card.title))) <= 5
               \/ Lower(Strip(Get(card.title))) = AdPlaceholder))
        => extracted = Returned(None)

\* C8: an otherwise valid fragment with the 5-character title "Lens5" was rejected.
C8_Witness ==
    /\ ExtractDone
    /\ card = [ CardLens EXCEPT !.title = Some(TitleFive) ]
    /\ extracted = Returned(None)

\* C9: _extract_product_data never raises, and yields None for a fragment
\* without a title and for a malformed one; a malformed fragment does not
\* abort the batch: the region's list is the products of the accepted
\* fragments among those extracted, in their order.
C9_ExtractionFailsSoft ==
    /\ ExtractDone =>
          /\ ~extracted.raised
          /\ (card.raises \/ ~IsSome(card.title)) => extracted.val = None
    /\ PageDone =>
          /\ ~regionOut.raised
          /\ regionOut.log # "error"
          /\ regionOut.val
                = AcceptedInOrder(SliceTo(html, max_products), callRegion)

\* C9: a page with a malformed fragment between two valid ones yielded the
\* two products.
C9_Witness ==
    /\ PageDone
    /\ html = << CardLens, CardMalformed, CardTripod >>
    /\ max_products = 3
    /\ Len(regionOut.val) = 2

\* the five rejection rules, as the specification words them
RuleSponsored(c) ==
    "srp-river-answer" \in c.class

RuleTitle(c) ==
    ~IsSome(c.title) \/ Contains(Get(c.title), NewListingMarker)

RuleAdOrShort(c) ==
    Lower(Strip(Get(c.title))) = AdPlaceholder \/ Len(Strip(Get(c.title))) <= 5

\* no price: no price element, a blank price text, or a price range
RulePrice(c) ==
    ~IsSome(c.price) \/ Strip(Get(c.price)) = << >> \/ HasTo(Get(c.price))

\* no usable link: no anchor, no href, or nothing before the '?' of the href
RuleLink(c) ==
    \/ ~IsSome(c.link)
    \/ ~IsSome(Get(c.link))
    \/ Get(Get(c.link)) = << >>
    \/ Get(Get(c.link))[1] = "?"

NoRuleRejects(c) ==
    /\ ~RuleSponsored(c)
    /\ ~RuleTitle(c)
    /\ ~RuleAdOrShort(c)
    /\ ~RulePrice(c)
    /\ ~RuleLink(c)

\* the rules as the code applies them: the placeholder anywhere in the title
NoCodeRuleRejects(c) ==
    /\ NoRuleRejects(c)
    /\ ~Contains(Lower(Strip(Get(c.title))), AdPlaceholder)

ProductAsSpecified(c, region, p) ==
    /\ p.name = Strip(Get(c.title))
    /\ p.price = Strip(Get(c.price))
    /\ p.site = << "e", "B", "a", "y", " ", "(" >> \o Upper(region) \o << ")" >>
    /\ region = us => p.site = SiteUS

\* C10 (as claimed): a well-formed fragment that none of the five rules
\* rejects yields a Product with the trimmed title, the trimmed price and the
\* site tag of the region.
C10_FiveRulesOnly ==
    (ExtractDone /\ ~card.raises /\ NoRuleRejects(card))
        => /\ IsSome(extracted.val)
           /\ ProductAsSpecified(card, callRegion, Get(extracted.val))

\* C10 (amended): a well-formed fragment yields a Product exactly when none of
\* the five rules rejects it, the placeholder rule read as "the trimmed title
\* contains the placeholder in any letter case"; the Product has the trimmed
\* title, the trimmed price and the region's site tag.
C10_CodeRulesOnly ==
    (ExtractDone /\ ~card.raises) =>
        /\ IsSome(extracted.val) <=> NoCodeRuleRejects(card)
        /\ IsSome(extracted.val)
              => ProductAsSpecified(card, callRegion, Get(extracted.val))

\* C10: the valid fragment of scenario A yielded its Product for region us.
C10_Witness ==
    /\ ExtractDone
    /\ card = CardLens
    /\ callRegion = us
    /\ extracted.val = Some(Product(TitleLens, PricePlain, UrlOne, SiteUS))

\* the first n elements of s, all of s when it has fewer
FirstN(s, n) ==
    [ k \in 1..(IF n <= Len(s) THEN n ELSE Len(s)) |-> s[k] ]

\* C11: for a positive max_products, only the first max_products fragments of
\* the page, in document order, are extracted: one call per such fragment, and
\* the region's list is the accepted ones among them, so a later fragment is
\* never extracted or returned, even when earlier ones were rejected.
C11_TruncatedBeforeExtraction ==
    /\ (PageDone /\ max_products > 0) =>
           /\ regionOut.calls <= max_products
           /\ regionOut.calls = Len(FirstN(html, max_products))
           /\ Len(regionOut.val) <= max_products
           /\ regionOut.val = AcceptedInOrder(FirstN(html, max_products), callRegion)
    /\ (Searching /\ max_products > 0) =>
           \A i \in Tasks : /\ Len(extracting[i]) <= max_products
                            /\ Len(results[i]) <= max_products

\* C11: of a page with a rejected fragment and two valid ones, handled with
\* max_products = 2, only the first valid one was returned.
C11_Witness ==
    /\ PageDone
    /\ html = << CardRange, CardLens, CardTripod >>
    /\ max_products = 2
    /\ regionOut.calls = 2
    /\ Len(regionOut.val) = 1
    /\ regionOut.val[1].name = TitleLens

\* C12: export tries to write the file at most twice: once under the name
\* given and, after a PermissionError, once under the alternate name.
C12_AtMostTwoWrites ==
    writes <= 2

\* main() has returned or the process has exited
MainOver ==
    mode = "cli" /\ mainPc \in { "exited", "usage_error", "failed" }

\* C13: when search() returns no product, it returns normally, main() never
\* calls the exporter and no file is written, and the status is not 0;
\* export() called on an empty list raises before any attempt to write.
C13_NothingToExport ==
    /\ (Searching /\ searchPc = "done" /\ \A i \in Tasks : results[i] = << >>)
           => all_products = << >>
    /\ (mode = "cli" /\ mainPc \in { "returned", "exited" }
           /\ all_products = << >>)
           => /\ exportPc = "idle"
              /\ writes = 0
              /\ exitCode # 0
    /\ (mode = "export" /\ all_products = << >>)
           => /\ writes = 0
              /\ exportPc \in { "called", "raised" }

\* C13: main() has ended with status 1 after a search of two regions that
\* found nothing, and the exporter was never called.
C13_Witness ==
    /\ mode = "cli"
    /\ mainPc = "exited"
    /\ Len(regions) = 2
    /\ all_products = << >>
    /\ exportPc = "idle"
    /\ exitCode = 1

\* C14: main() ends with 0 exactly when search() returned a product and the
\* export returned; with 1 when there was no product or the search or the
\* export raised; a failure to open the file leaves the status 0.
C14_ExitStatus ==
    /\ (mode = "cli" /\ mainPc \in { "exited", "failed" }) =>
           /\ exitCode \in { 0, 1 }
           /\ exitCode = 0 <=> (all_products # << >> /\ exportPc = "returned")
           /\ (all_products = << >> \/ exportPc = "raised"
                  \/ mainPc = "failed") => exitCode = 1
           /\ viewer = "failed" => exitCode = 0
    /\ (mode = "cli" /\ mainPc \notin { "exited", "failed", "usage_error" })
           => exitCode = 0 - 1

\* C14: main() has ended with 0 although the exported file could not be opened.
C14_Witness ==
    /\ mode = "cli"
    /\ mainPc = "exited"
    /\ exportPc = "returned"
    /\ viewer = "failed"
    /\ exitCode = 0

\* C15: a search that has started its region tasks eventually returns, whether
\* or not any region responds: every region task, one whose request is still
\* unanswered or whose body is still being read included, has then finished,
\* a region that ended in a failure contributes the empty list, and the
\* result is the lists of the regions one after the other.
C15_SearchEventuallyReturns ==
    /\ (Searching /\ searchPc = "gathering")
           ~> (/\ searchPc = "done"
               /\ \A i \in Tasks : taskPc[i] = "done"
               /\ \A i \in Tasks : logged[i] = "error" => results[i] = << >>
               /\ all_products = Flatten(results))
    /\ [](Searching /\ searchPc = "done" =>
             /\ \A i \in Tasks : logged[i] = "error" => results[i] = << >>
             /\ all_products = Flatten(results))

\* C15: search has returned the product of the second region, the first
\* region having ended in a failure without a response.
C15_Witness ==
    /\ Searching
    /\ searchPc = "done"
    /\ Len(regions) = 2
    /\ logged[1] = "error"
    /\ status[1] = 0
    /\ results[1] = << >>
    /\ Len(results[2]) = 1
    /\ all_products = results[2]

SiteUK ==
    << "e", "B", "a", "y", " ", "(", "U", "K", ")" >>

SiteXX ==
    << "e", "B", "a", "y", " ", "(", "X", "X", ")" >>

\* the site tag the products of a region are to carry
SiteAccented ==
    << "e", "B", "a", "y", " ", "(", "É", "S", "S", "U+0178", ")" >>

TagOf(region) ==
    IF region = us THEN SiteUS
    ELSE IF region = uk THEN SiteUK
    ELSE IF region = xx THEN SiteXX
    ELSE SiteAccented

\* the acceptance predicate, for a product found in the response of a region
Acceptable(p, region) ==
    /\ p.name # << >>
    /\ p.name[1] \notin Whitespace
    /\ p.name[Len(p.name)] \notin Whitespace
    /\ Len(p.name) > 5
    /\ p.name # TitleAd
    /\ ~HasTo(p.price)
    /\ p.url # << >>
    /\ p.site = TagOf(region)

\* C16: every product in a region's list, and every product of the list search
\* returns, has a non-empty trimmed name of more than 5 characters that is not
\* the ad placeholder, a price without "to", a non-empty url, and the site tag
\* "eBay (<CODE>)" of the region in whose response it was found.
C16_ProductsAcceptable ==
    /\ Searching =>
           \A i \in Tasks : \A k \in 1..Len(results[i]) :
               Acceptable(results[i][k], regions[i])
    /\ (mode \in { "cli", "api" }) =>
           \A k \in 1..Len(all_products) :
               \E i \in 1..Len(regions) : Acceptable(all_products[k], regions[i])
    /\ PageDone =>
           \A k \in 1..Len(regionOut.val) : Acceptable(regionOut.val[k], callRegion)
    /\ (ExtractDone /\ IsSome(extracted.val)) =>
           Acceptable(Get(extracted.val), callRegion)

\* C16: search has returned the products of two different regions, each with
\* the tag of its own region.
C16_Witness ==
    /\ Searching
    /\ searchPc = "done"
    /\ regions = << uk, us >>
    /\ Len(all_products) = 2
    /\ all_products[1].site = SiteUK
    /\ all_products[2].site = SiteUS

\* every region task has returned its list or has ended in an exception
Joined ==
    \A i \in Tasks : taskPc[i] \in { "done", "raised" }

\* C17: while a region task is outstanding search has not returned, the
\* aggregate list is empty and the session is open; the aggregate list is
\* written in one step only, the step in which search returns after every
\* task has finished, and it is then the lists of the tasks one after the
\* other; the session is closed only when every task has finished.
C17_MergeAfterJoin ==
    /\ [](Searching =>
             /\ ~Joined => (searchPc = "gathering" /\ all_products = << >>
                               /\ session = "open")
             /\ searchPc = "gathering" => (all_products = << >> /\ session = "open")
             /\ session = "closed" => Joined
             /\ searchPc = "done" => all_products = Flatten(results))
    /\ [][(mode \in { "cli", "api" } /\ all_products' # all_products) =>
             /\ searchPc = "gathering"
             /\ Joined
             /\ searchPc' = "done"
             /\ results' = results
             /\ all_products' = Flatten(results)]_vars
    /\ [][(mode \in { "cli", "api" } /\ session' # session /\ session' = "closed") =>
             (searchPc = "gathering" /\ Joined)]_vars

\* C17: of two region tasks one has returned a product and the other is still
\* waiting for its response: nothing is merged and the session is open.
C17_Witness ==
    /\ Searching
    /\ searchPc = "gathering"
    /\ Len(regions) = 2
    /\ taskPc[1] = "done"
    /\ Len(results[1]) = 1
    /\ taskPc[2] = "requested"
    /\ all_products = << >>
    /\ session = "open"

\* C18: a region task whose code is not in the lookup table sends its request
\* to ebay.com, and each product it returns carries the tag made of the code
\* it was given, "eBay (XX)" for the code "xx".
C18_UnknownRegionFallsBack ==
    /\ Searching =>
           \A i \in Tasks : (regions[i] = xx /\ taskPc[i] # "pending") =>
               /\ requested[i] = "ebay.com"
               /\ \A k \in 1..Len(results[i]) : results[i][k].site = SiteXX
    /\ (PageDone /\ callRegion = xx) =>
           \A k \in 1..Len(regionOut.val) : regionOut.val[k].site = SiteXX

\* C18: the task of the unknown code "xx" has asked ebay.com and has returned
\* a product tagged "eBay (XX)".
C18_Witness ==
    /\ Searching
    /\ regions[1] = xx
    /\ taskPc[1] = "done"
    /\ requested[1] = "ebay.com"
    /\ Len(results[1]) = 1
    /\ results[1][1].site = SiteXX

\* C19: with max_products <= 0 no fragment of the page is extracted and the
\* region returns the empty list.
C19_NoWorkForNonPositiveCap ==
    (PageDone /\ max_products <= 0) =>
        /\ regionOut.calls = 0
        /\ regionOut.val = << >>

====
